---- MODULE Spec2Model ----
(***************************************************************************)
(* Model of image_scale.py: the iOS app icon generator.                    *)
(*                                                                         *)
(* One run of main() is modelled: construction of AppIconGenerator         *)
(* (directory creation and input validation), _prepare_image, the loop of  *)
(* generate_icons over the icon catalog, and _generate_contents_json.      *)
(*                                                                         *)
(* Text (file names, scale strings, the manifest's "size" value) is        *)
(* modelled as sequences of one-character strings so that formatting and   *)
(* parsing are computed rather than assumed.  Logical icon sizes are held  *)
(* in tenths of a point (83.5 is 835) so the fractional entry is exact.    *)
(***************************************************************************)
EXTENDS Integers, Sequences, FiniteSets, TLC

(* ------------------------------ bounds -------------------------------- *)

\* Number of large (>= 1024) edge lengths tried beyond the boundary values.
MaxDimSteps == 2

(* ------------------------- program constants -------------------------- *)

\* Optional[str] = None, the default of IconSpec.role and IconSpec.subgroup.
None == "None"

\* Smallest accepted min(width, height).
MinSize == 512

\* Recommended min(width, height); below it the image is upscaled.
RecommendedSize == 1024

\* Default target_size of _upscale_image.
UpscaleTargetSize == 1024

IPHONE_ICONS ==
  << [size |-> 600, filename |-> <<"i","p","h","o","n","e","_","6","0","p","t","@","3","x">>,
       idiom |-> "iphone", scale |-> <<"3","x">>, role |-> "primary", subgroup |-> None],
     [size |-> 600, filename |-> <<"i","p","h","o","n","e","_","6","0","p","t","@","2","x">>,
       idiom |-> "iphone", scale |-> <<"2","x">>, role |-> "primary", subgroup |-> None],
     [size |-> 400, filename |-> <<"i","p","h","o","n","e","_","4","0","p","t","@","3","x">>,
       idiom |-> "iphone", scale |-> <<"3","x">>, role |-> "spotlight", subgroup |-> None],
     [size |-> 400, filename |-> <<"i","p","h","o","n","e","_","4","0","p","t","@","2","x">>,
       idiom |-> "iphone", scale |-> <<"2","x">>, role |-> "spotlight", subgroup |-> None],
     [size |-> 290, filename |-> <<"i","p","h","o","n","e","_","2","9","p","t","@","3","x">>,
       idiom |-> "iphone", scale |-> <<"3","x">>, role |-> "settings", subgroup |-> None],
     [size |-> 290, filename |-> <<"i","p","h","o","n","e","_","2","9","p","t","@","2","x">>,
       idiom |-> "iphone", scale |-> <<"2","x">>, role |-> "settings", subgroup |-> None],
     [size |-> 200, filename |-> <<"i","p","h","o","n","e","_","2","0","p","t","@","3","x">>,
       idiom |-> "iphone", scale |-> <<"3","x">>, role |-> "notification", subgroup |-> None],
     [size |-> 200, filename |-> <<"i","p","h","o","n","e","_","2","0","p","t","@","2","x">>,
       idiom |-> "iphone", scale |-> <<"2","x">>, role |-> "notification", subgroup |-> None] >>

IPAD_ICONS ==
  << [size |-> 835, filename |-> <<"i","p","a","d","_","8","3",".","5","p","t","@","2","x">>,
       idiom |-> "ipad", scale |-> <<"2","x">>, role |-> "primary", subgroup |-> None],
     [size |-> 760, filename |-> <<"i","p","a","d","_","7","6","p","t","@","2","x">>,
       idiom |-> "ipad", scale |-> <<"2","x">>, role |-> "primary", subgroup |-> None],
     [size |-> 400, filename |-> <<"i","p","a","d","_","4","0","p","t","@","2","x">>,
       idiom |-> "ipad", scale |-> <<"2","x">>, role |-> "spotlight", subgroup |-> None],
     [size |-> 400, filename |-> <<"i","p","a","d","_","4","0","p","t">>,
       idiom |-> "ipad", scale |-> <<"1","x">>, role |-> "spotlight", subgroup |-> None],
     [size |-> 290, filename |-> <<"i","p","a","d","_","2","9","p","t","@","2","x">>,
       idiom |-> "ipad", scale |-> <<"2","x">>, role |-> "settings", subgroup |-> None],
     [size |-> 290, filename |-> <<"i","p","a","d","_","2","9","p","t">>,
       idiom |-> "ipad", scale |-> <<"1","x">>, role |-> "settings", subgroup |-> None],
     [size |-> 200, filename |-> <<"i","p","a","d","_","2","0","p","t","@","2","x">>,
       idiom |-> "ipad", scale |-> <<"2","x">>, role |-> "notification", subgroup |-> None],
     [size |-> 200, filename |-> <<"i","p","a","d","_","2","0","p","t">>,
       idiom |-> "ipad", scale |-> <<"1","x">>, role |-> "notification", subgroup |-> None] >>

APP_STORE_ICON ==
  << [size |-> 10240, filename |-> <<"a","p","p","s","t","o","r","e">>,
       idiom |-> "ios-marketing", scale |-> <<"1","x">>, role |-> "primary", subgroup |-> None] >>

\* The catalog in the order both loops iterate it:
\* [self.IPHONE_ICONS, self.IPAD_ICONS, self.APP_STORE_ICON].
IconSets == << IPHONE_ICONS, IPAD_ICONS, APP_STORE_ICON >>

RECURSIVE Flatten(_)
Flatten(sets) ==
  IF sets = << >> THEN << >> ELSE Head(sets) \o Flatten(Tail(sets))

\* Variant of AllIcons whose loop leaves out APP_STORE_ICON.
AllIcons_WithoutAppStore == IPHONE_ICONS \o IPAD_ICONS

\* The entries in iteration order of "for icon_set in [...]: for icon in icon_set".
AllIcons == Flatten(IconSets)

\* self.total_count as computed in __init__.
TotalCount == Len(IPHONE_ICONS \o IPAD_ICONS \o APP_STORE_ICON)

(* ------------------------- text and arithmetic ------------------------ *)

Digits == << "0", "1", "2", "3", "4", "5", "6", "7", "8", "9" >>

\* str.isdigit() on one character.
IsDigit(c) == \E d \in 1..10 : Digits[d] = c

\* int(c) for a digit character c.
DigitValue(c) == (CHOOSE d \in 1..10 : Digits[d] = c) - 1

\* str(n) for a non-negative int n, as in an f-string.
RECURSIVE IntToStr(_)
IntToStr(n) ==
  IF n < 10 THEN << Digits[n + 1] >>
            ELSE IntToStr(n \div 10) \o << Digits[(n % 10) + 1] >>

\* str(icon.size): sizes are int literals except the float 83.5; a size in
\* tenths with a zero last digit is an int and prints without a fraction.
SizeToStr(t) ==
  IF t % 10 = 0 THEN IntToStr(t \div 10)
                ELSE IntToStr(t \div 10) \o << "." >> \o IntToStr(t % 10)

Min(a, b) == IF a < b THEN a ELSE b

\* os.path.join(a, b) on paths held as sequences of components.
PathJoin(dir, name) == Append(dir, name)

\* os.makedirs(path, exist_ok=True): the path and all its ancestors exist.
MakeDirs(existing, path) ==
  existing \cup { SubSeq(path, 1, k) : k \in 1..Len(path) }


ContentsJsonName == <<"C","o","n","t","e","n","t","s",".","j","s","o","n">>

PngSuffix == <<".","p","n","g">>


(* ------------------------------ images -------------------------------- *)

\* PIL modes tried for the input file.
Modes == { "RGB", "RGBA", "L" }

SupportedModes == { "RGB", "RGBA" }

Image(w, h, m) == [width |-> w, height |-> h, mode |-> m]

\* No image: the value of img before _prepare_image has returned, and the
\* content of a file that a failed save left behind.
NoImage == Image(0, 0, None)

\* Image.resize((w, h), resample): the result has exactly the requested size.
Resize(img, w, h) == Image(w, h, img.mode)

\* Image.crop((left, top, right, bottom)).
Crop(img, left, top, right, bottom) == Image(right - left, bottom - top, img.mode)

UpperLetters ==
  <<"A","B","C","D","E","F","G","H","I","J","K","L","M">>
    \o <<"N","O","P","Q","R","S","T","U","V","W","X","Y","Z">>

LowerLetters ==
  <<"a","b","c","d","e","f","g","h","i","j","k","l","m">>
    \o <<"n","o","p","q","r","s","t","u","v","w","x","y","z">>

\* str.lower() on one character: upper-case letters map to lower case,
\* everything else is kept.
LowerChar(c) ==
  IF \E k \in DOMAIN UpperLetters : UpperLetters[k] = c
    THEN LowerLetters[CHOOSE k \in DOMAIN UpperLetters : UpperLetters[k] = c]
    ELSE c

\* str.lower().
Lower(str) == [ i \in DOMAIN str |-> LowerChar(str[i]) ]

\* The keys of quality_map.
QualityHigh == <<"h","i","g","h">>

QualityMedium == <<"m","e","d","i","u","m">>

QualityLow == <<"l","o","w">>

\* _get_resize_method: quality_map.get(self.quality.lower(), Image.LANCZOS).
ResizeMethod(q) ==
  LET key == Lower(q) IN
    CASE key = QualityHigh   -> "LANCZOS"
      [] key = QualityMedium -> "BICUBIC"
      [] key = QualityLow    -> "BILINEAR"
      [] OTHER               -> "LANCZOS"

\* Variant of ValidateInputImage without the minimum-size check.
ValidateInputImage_NoMinimum(file) ==
  IF ~file.exists
    THEN [error |-> "FileNotFoundError", needs_upscaling |-> FALSE]
  ELSE IF Min(file.width, file.height) < RecommendedSize
    THEN [error |-> None, needs_upscaling |-> TRUE]
  ELSE [error |-> None, needs_upscaling |-> FALSE]

\* _validate_input_image: the exception raised (or None) and needs_upscaling.
ValidateInputImage(file) ==
  IF ~file.exists
    THEN [error |-> "FileNotFoundError", needs_upscaling |-> FALSE]
  ELSE LET min_dimension == Min(file.width, file.height) IN
    IF min_dimension < MinSize
      THEN [error |-> "ValueError", needs_upscaling |-> FALSE]
    ELSE IF min_dimension < RecommendedSize
      THEN [error |-> None, needs_upscaling |-> TRUE]
    ELSE [error |-> None, needs_upscaling |-> FALSE]

\* Variant of UpscaleImage that compares against the minimum size.
UpscaleImage_WrongThreshold(img, target_size) ==
  IF img.width >= MinSize THEN img
  ELSE Resize(img, target_size, target_size)

\* _upscale_image(img, target_size).
UpscaleImage(img, target_size) ==
  LET current_size == img.width IN
    IF current_size >= target_size THEN img
    ELSE Resize(img, target_size, target_size)

\* Variant of CropToSquare that warns but does not crop.
CropToSquare_NoCrop(img) == img

\* The center crop of _prepare_image.
CropToSquare(img) ==
  IF img.width # img.height
    THEN LET min_dimension == Min(img.width, img.height)
             left   == (img.width - min_dimension) \div 2
             top    == (img.height - min_dimension) \div 2
             right  == left + min_dimension
             bottom == top + min_dimension
         IN Crop(img, left, top, right, bottom)
    ELSE img

\* _prepare_image: mode conversion, center crop, optional upscale.
PrepareImageResult(file, upscale) ==
  LET opened    == Image(file.width, file.height, file.mode)
      converted == IF opened.mode \notin SupportedModes
                     THEN Image(opened.width, opened.height, "RGBA")
                     ELSE opened
      processed_img == CropToSquare(converted)
  IN IF upscale THEN UpscaleImage(processed_img, UpscaleTargetSize)
                ELSE processed_img

(* ------------------- per-entry computations: icon loop ----------------- *)

\* generate_icons: scale_factor = int(icon.scale[0]) if isdigit else 1.
IconScaleFactor(icon) ==
  IF IsDigit(icon.scale[1]) THEN DigitValue(icon.scale[1]) ELSE 1

\* Variant of IconPixelSize that truncates the size before multiplying.
IconPixelSize_TruncateFirst(icon) == (icon.size \div 10) * IconScaleFactor(icon)

\* generate_icons: pixel_size = int(icon.size * scale_factor); the product is
\* formed first and then truncated.
IconPixelSize(icon) == (icon.size * IconScaleFactor(icon)) \div 10

\* generate_icons: output_filename.
OutputFilename(icon) ==
  icon.filename \o << "_" >> \o IntToStr(IconPixelSize(icon)) \o << "x" >>
    \o IntToStr(IconPixelSize(icon)) \o PngSuffix

(* ------------------- per-entry computations: manifest ------------------ *)

\* _generate_contents_json: scale_factor.
ContentsScaleFactor(icon) ==
  IF IsDigit(icon.scale[1]) THEN DigitValue(icon.scale[1]) ELSE 1

\* Variant of ContentsPixelSize that forgets the scale factor.
ContentsPixelSize_NoScale(icon) == icon.size \div 10

\* _generate_contents_json: pixel_size.
ContentsPixelSize(icon) == (icon.size * ContentsScaleFactor(icon)) \div 10

\* Truthiness of an Optional[str]: None and "" are false.
Truthy(v) == v # None /\ v # ""

\* _generate_contents_json: the image_info dict of one entry.  Keys "role"
\* and "subgroup" are added only for truthy values.
ImageInfo(icon) ==
  LET keys == { "size", "idiom", "filename", "scale" }
                \cup (IF Truthy(icon.role) THEN { "role" } ELSE { })
                \cup (IF Truthy(icon.subgroup) THEN { "subgroup" } ELSE { })
  IN [ k \in keys |->
        CASE k = "size"     -> SizeToStr(icon.size) \o << "x" >> \o SizeToStr(icon.size)
          [] k = "idiom"    -> icon.idiom
          [] k = "filename" -> icon.filename \o << "_" >>
                                 \o IntToStr(ContentsPixelSize(icon)) \o << "x" >>
                                 \o IntToStr(ContentsPixelSize(icon)) \o PngSuffix
          [] k = "scale"    -> icon.scale
          [] k = "role"     -> icon.role
          [] k = "subgroup" -> icon.subgroup ]

RECURSIVE ImagesOf(_)
\* The inner loop of _generate_contents_json over one icon set.
ImagesOf(icon_set) ==
  IF icon_set = << >> THEN << >>
  ELSE << ImageInfo(Head(icon_set)) >> \o ImagesOf(Tail(icon_set))

RECURSIVE ImagesOfSets_Reversed(_)
\* Variant of ImagesOfSets that emits the icon sets last to first.
ImagesOfSets_Reversed(sets) ==
  IF sets = << >> THEN << >>
  ELSE ImagesOfSets_Reversed(Tail(sets)) \o ImagesOf(Head(sets))

RECURSIVE ImagesOfSets(_)
\* The outer loop of _generate_contents_json over the icon sets.
ImagesOfSets(sets) ==
  IF sets = << >> THEN << >>
  ELSE ImagesOf(Head(sets)) \o ImagesOfSets(Tail(sets))

\* The dict written by _generate_contents_json.
Contents ==
  [ images |-> ImagesOfSets(IconSets),
    info   |-> [version |-> 1, author |-> "xcode"] ]

(* ------------------------------- state -------------------------------- *)

VARIABLES
  pc,               \* position in main(): "main", "prepare", "icons",
                    \* "contents", "done" (returned), "exit" (sys.exit(1))
  input_path,       \* args.input_image
  input_file,       \* what input_path resolves to: exists, width, height, mode
  output_dir,       \* args.output_dir, a path
  quality,          \* args.quality
  dirs,             \* directories that exist
  dirs0,            \* directories that existed before the run
  files,            \* PNG files in ios_dir: file name -> image written
  written,          \* names of the files written by the run, in order
  contents_json,    \* Contents.json on disk: state "absent", "truncated" or
                    \* "complete", and the dict dumped when complete
  processed_count,  \* self.processed_count
  total_count,      \* self.total_count
  needs_upscaling,  \* self.needs_upscaling
  img,              \* the image returned by _prepare_image, or NoImage
  index,            \* catalog entries the loop of generate_icons has taken up
  failed_at,        \* entry whose resize or save raised, 0 if none
  exit_code,        \* process exit status, None while running
  message           \* the error line printed, or None

vars == << pc, input_path, input_file, output_dir, quality, dirs, dirs0, files,
           written, contents_json, processed_count, total_count,
           needs_upscaling, img, index, failed_at, exit_code, message >>

\* Edge lengths tried: around both thresholds, and larger ones.
Dims == { MinSize - 1, MinSize, RecommendedSize - 1, RecommendedSize }
          \cup { RecommendedSize + 488 * k : k \in 1..MaxDimSteps }

InputPaths == { "icon.png", "art/logo.png" }

\* The choices argparse accepts for --quality.
Qualities == { QualityHigh, QualityMedium, QualityLow }

OutputDir == << "AppIcons" >>

\* self.ios_dir = os.path.join(output_dir, "ios").
IosDir(dir) == PathJoin(dir, "ios")

InputFiles ==
  { [exists |-> FALSE, width |-> 0, height |-> 0, mode |-> None] }
    \cup { [exists |-> TRUE, width |-> w, height |-> h, mode |-> m] :
             w \in Dims, h \in Dims, m \in Modes }

Init ==
  /\ pc = "main"
  /\ input_path \in InputPaths
  /\ input_file \in InputFiles
  /\ output_dir = OutputDir
  /\ quality \in Qualities
  /\ dirs0 \in { { }, { OutputDir }, { OutputDir, IosDir(OutputDir) } }
  /\ dirs = dirs0
  /\ files = << >>
  /\ written = << >>
  /\ contents_json = [state |-> "absent", data |-> None]
  /\ processed_count = 0
  /\ total_count = 0
  /\ needs_upscaling = FALSE
  /\ img = NoImage
  /\ index = 0
  /\ failed_at = 0
  /\ exit_code = None
  /\ message = None

(* ------------------------------ actions ------------------------------- *)

\* main() calling AppIconGenerator.__init__: fields are set, the output
\* directory tree is created, then the input is validated.  FileNotFoundError
\* and ValueError are caught by main(), which prints and exits 1.
Construct ==
  /\ pc = "main"
  /\ processed_count' = 0
  /\ total_count' = TotalCount
  /\ dirs' = MakeDirs(dirs, IosDir(output_dir))
  /\ LET v == ValidateInputImage(input_file) IN
       /\ needs_upscaling' = v.needs_upscaling
       /\ IF v.error = None
            THEN /\ pc' = "prepare"
                 /\ UNCHANGED << exit_code, message >>
            ELSE /\ pc' = "exit"
                 /\ exit_code' = 1
                 /\ message' =
                      [prefix |-> "Error: ", error |-> v.error,
                       path |-> IF v.error = "FileNotFoundError"
                                  THEN input_path ELSE None,
                       size |-> IF v.error = "ValueError"
                                  THEN << input_file.width, input_file.height >>
                                  ELSE << >>]
  /\ UNCHANGED << input_path, input_file, output_dir, quality, dirs0, files,
                  written, contents_json, img, index, failed_at >>

\* The except clause of generate_icons: print the error and sys.exit(1).
\* SystemExit is not caught by main().
Abort ==
  /\ pc' = "exit"
  /\ exit_code' = 1
  /\ message' = [prefix |-> "Error generating icons: ", error |-> "Exception",
                 path |-> None, size |-> << >>]

\* generate_icons: img = self._prepare_image().  Decoding may raise.
PrepareImage ==
  /\ pc = "prepare"
  /\ \E raises \in BOOLEAN :
       IF raises
         THEN /\ Abort
              /\ UNCHANGED img
         ELSE /\ img' = PrepareImageResult(input_file, needs_upscaling)
              /\ pc' = "icons"
              /\ UNCHANGED << exit_code, message >>
  /\ UNCHANGED << input_path, input_file, output_dir, quality, dirs, dirs0,
                  files, written, contents_json, processed_count, total_count,
                  needs_upscaling, index, failed_at >>

\* Variant of ProcessIcon that skips an entry whose resize or save raised
\* and carries on with the next one.
ProcessIcon_SkipOnFailure ==
  /\ pc = "icons"
  /\ index < Len(AllIcons)
  /\ LET icon        == AllIcons[index + 1]
         pixel_size  == IconPixelSize(icon)
         output_filename == OutputFilename(icon)
         resized_img == [image  |-> Resize(img, pixel_size, pixel_size),
                         filter |-> ResizeMethod(quality)]
     IN \E outcome \in { "ok", "raises" } :
          /\ index' = index + 1
          /\ pc' = IF index + 1 = Len(AllIcons) THEN "contents" ELSE "icons"
          /\ IF outcome = "ok"
               THEN /\ files' = [ f \in DOMAIN files \cup { output_filename } |->
                                    IF f = output_filename THEN resized_img
                                                           ELSE files[f] ]
                    /\ written' = Append(written, output_filename)
                    /\ processed_count' = processed_count + 1
                    /\ UNCHANGED failed_at
               ELSE /\ failed_at' = index + 1
                    /\ UNCHANGED << files, written, processed_count >>
  /\ UNCHANGED << input_path, input_file, output_dir, quality, dirs, dirs0,
                  contents_json, total_count, needs_upscaling, img,
                  exit_code, message >>

\* One iteration of the loop of generate_icons, _process_image included:
\* resize, save, count.  Either call may raise; a failed save may leave the
\* file behind or not.  After the last entry control passes to
\* _generate_contents_json.
ProcessIcon ==
  /\ pc = "icons"
  /\ index < Len(AllIcons)
  /\ LET icon        == AllIcons[index + 1]
         pixel_size  == IconPixelSize(icon)
         output_filename == OutputFilename(icon)
         resized_img == [image  |-> Resize(img, pixel_size, pixel_size),
                         filter |-> ResizeMethod(quality)]
     IN \E outcome \in { "ok", "resize_raises", "save_raises",
                         "save_raises_file_left" } :
          /\ index' = index + 1
          /\ IF outcome = "ok"
               THEN /\ files' = [ f \in DOMAIN files \cup { output_filename } |->
                                    IF f = output_filename THEN resized_img
                                                           ELSE files[f] ]
                    /\ written' = Append(written, output_filename)
                    /\ processed_count' = processed_count + 1
                    /\ pc' = IF index + 1 = Len(AllIcons) THEN "contents"
                                                          ELSE "icons"
                    /\ UNCHANGED << failed_at, exit_code, message >>
               ELSE /\ files' =
                         IF outcome = "save_raises_file_left"
                           THEN [ f \in DOMAIN files \cup { output_filename } |->
                                    IF f = output_filename
                                      THEN [image |-> NoImage, filter |-> None]
                                      ELSE files[f] ]
                           ELSE files
                    /\ failed_at' = index + 1
                    /\ Abort
                    /\ UNCHANGED << written, processed_count >>
  /\ UNCHANGED << input_path, input_file, output_dir, quality, dirs, dirs0,
                  contents_json, total_count, needs_upscaling, img >>

\* Variant of GenerateContentsJson called inside the loop over the icon
\* sets, after each set, instead of once after the loop.
GenerateContentsJson_InLoop ==
  /\ \/ pc = "contents"
     \/ pc = "icons" /\ index = Len(IPHONE_ICONS)
     \/ pc = "icons" /\ index = Len(IPHONE_ICONS) + Len(IPAD_ICONS)
  /\ contents_json' = [state |-> "complete", data |-> Contents]
  /\ written' = Append(written, ContentsJsonName)
  /\ IF pc = "contents"
       THEN pc' = "done" /\ exit_code' = 0
       ELSE UNCHANGED << pc, exit_code >>
  /\ UNCHANGED << input_path, input_file, output_dir, quality, dirs, dirs0,
                  files, processed_count, total_count, needs_upscaling, img,
                  index, failed_at, message >>

\* generate_icons: self._generate_contents_json(), then the closing prints
\* and the normal return of main().  open() may raise, leaving the disk as
\* it was; json.dump or the close may raise after open(path, 'w') has created
\* the file, leaving a truncated Contents.json behind.  Either way the except
\* clause of generate_icons exits with status 1.
GenerateContentsJson ==
  /\ pc = "contents"
  /\ \E outcome \in { "ok", "open_raises", "write_raises" } :
       CASE outcome = "ok" ->
              /\ contents_json' = [state |-> "complete", data |-> Contents]
              /\ written' = Append(written, ContentsJsonName)
              /\ pc' = "done"
              /\ exit_code' = 0
              /\ UNCHANGED message
         [] outcome = "open_raises" ->
              /\ Abort
              /\ UNCHANGED << contents_json, written >>
         [] outcome = "write_raises" ->
              /\ contents_json' = [state |-> "truncated", data |-> None]
              /\ Abort
              /\ UNCHANGED written
  /\ UNCHANGED << input_path, input_file, output_dir, quality, dirs, dirs0,
                  files, processed_count, total_count, needs_upscaling, img,
                  index, failed_at >>

Next ==
  \/ Construct
  \/ PrepareImage
  \/ ProcessIcon
  \/ GenerateContentsJson

Spec == Init /\ [][Next]_vars

(* ======================= properties of the run ======================== *)

\* The catalog as the documentation orders it.
Catalog == IPHONE_ICONS \o IPAD_ICONS \o APP_STORE_ICON

\* The expected PNG file name of each catalog entry, written out.
ExpectedFileNames ==
  << <<"i","p","h","o","n","e","_","6","0","p","t","@","3","x","_","1","8","0","x","1","8","0",".","p","n","g">>,
     <<"i","p","h","o","n","e","_","6","0","p","t","@","2","x","_","1","2","0","x","1","2","0",".","p","n","g">>,
     <<"i","p","h","o","n","e","_","4","0","p","t","@","3","x","_","1","2","0","x","1","2","0",".","p","n","g">>,
     <<"i","p","h","o","n","e","_","4","0","p","t","@","2","x","_","8","0","x","8","0",".","p","n","g">>,
     <<"i","p","h","o","n","e","_","2","9","p","t","@","3","x","_","8","7","x","8","7",".","p","n","g">>,
     <<"i","p","h","o","n","e","_","2","9","p","t","@","2","x","_","5","8","x","5","8",".","p","n","g">>,
     <<"i","p","h","o","n","e","_","2","0","p","t","@","3","x","_","6","0","x","6","0",".","p","n","g">>,
     <<"i","p","h","o","n","e","_","2","0","p","t","@","2","x","_","4","0","x","4","0",".","p","n","g">>,
     <<"i","p","a","d","_","8","3",".","5","p","t","@","2","x","_","1","6","7","x","1","6","7",".","p","n","g">>,
     <<"i","p","a","d","_","7","6","p","t","@","2","x","_","1","5","2","x","1","5","2",".","p","n","g">>,
     <<"i","p","a","d","_","4","0","p","t","@","2","x","_","8","0","x","8","0",".","p","n","g">>,
     <<"i","p","a","d","_","4","0","p","t","_","4","0","x","4","0",".","p","n","g">>,
     <<"i","p","a","d","_","2","9","p","t","@","2","x","_","5","8","x","5","8",".","p","n","g">>,
     <<"i","p","a","d","_","2","9","p","t","_","2","9","x","2","9",".","p","n","g">>,
     <<"i","p","a","d","_","2","0","p","t","@","2","x","_","4","0","x","4","0",".","p","n","g">>,
     <<"i","p","a","d","_","2","0","p","t","_","2","0","x","2","0",".","p","n","g">>,
     <<"a","p","p","s","t","o","r","e","_","1","0","2","4","x","1","0","2","4",".","p","n","g">> >>

\* The expected "size" string of each catalog entry, written out.
ExpectedSizeStrings ==
  << <<"6","0","x","6","0">>,
     <<"6","0","x","6","0">>,
     <<"4","0","x","4","0">>,
     <<"4","0","x","4","0">>,
     <<"2","9","x","2","9">>,
     <<"2","9","x","2","9">>,
     <<"2","0","x","2","0">>,
     <<"2","0","x","2","0">>,
     <<"8","3",".","5","x","8","3",".","5">>,
     <<"7","6","x","7","6">>,
     <<"4","0","x","4","0">>,
     <<"4","0","x","4","0">>,
     <<"2","9","x","2","9">>,
     <<"2","9","x","2","9">>,
     <<"2","0","x","2","0">>,
     <<"2","0","x","2","0">>,
     <<"1","0","2","4","x","1","0","2","4">> >>

\* Positions of a name in the sequence of writes.
WritesOf(name) == { i \in DOMAIN written : written[i] = name }

ManifestWritten == WritesOf(ContentsJsonName) # { }

\* Contents.json exists on disk, complete or not.
ManifestOnDisk == contents_json.state # "absent"

\* The PNG names among the writes, in order.
PngWrites == SelectSeq(written, LAMBDA n : n # ContentsJsonName)

MinDimension == Min(input_file.width, input_file.height)

\* C1 (as claimed): a run whose input path does not resolve to a file exits
\* non-zero with a message naming the path and leaves the directory tree
\* and the files under the output directory as they were before the run.
C1_MissingInputLeavesOutputUntouched ==
  (pc # "main" /\ ~input_file.exists) =>
     /\ pc = "exit"
     /\ exit_code # 0
     /\ message.error = "FileNotFoundError"
     /\ message.path = input_path
     /\ dirs = dirs0
     /\ DOMAIN files = { }
     /\ written = << >>

\* C2: an input whose smaller dimension is below 512 fails validation with
\* ValueError, the run exits non-zero, and no icon PNG and no Contents.json
\* is written.
C2_TooSmallWritesNothing ==
  (pc # "main" /\ input_file.exists /\ MinDimension < 512) =>
     /\ pc = "exit"
     /\ exit_code = 1
     /\ message.error = "ValueError"
     /\ message.size = << input_file.width, input_file.height >>
     /\ written = << >>
     /\ DOMAIN files = { }
     /\ ~ManifestWritten
     /\ ~ManifestOnDisk

C2_Witness ==
  /\ pc = "exit"
  /\ input_file.exists
  /\ MinDimension = 511
  /\ input_file.width # input_file.height

\* C3: when the resize or save of entry k raises, the run is aborted: the
\* process exits with status 1, no entry after k is taken up or written, and
\* Contents.json is not written.
C3_FailureAbortsRun ==
  failed_at # 0 =>
     /\ pc = "exit"
     /\ exit_code = 1
     /\ index = failed_at
     /\ processed_count = failed_at - 1
     /\ Len(written) = failed_at - 1
     /\ ~ManifestWritten
     /\ ~ManifestOnDisk
     /\ \A j \in (failed_at + 1)..Len(Catalog) :
          /\ ExpectedFileNames[j] \notin DOMAIN files
          /\ WritesOf(ExpectedFileNames[j]) = { }

C3_Witness ==
  /\ failed_at = 9
  /\ pc = "exit"
  /\ Len(written) = 8

\* C4: Contents.json is written at most once, and only as the last write of
\* the run, after the PNG of every one of the 17 catalog entries; this also
\* holds of a write of Contents.json that fails part-way.
C4_ManifestOnceAfterAllIcons ==
  /\ Cardinality(WritesOf(ContentsJsonName)) <= 1
  /\ ManifestWritten <=> contents_json.state = "complete"
  /\ ManifestOnDisk =>
       /\ Len(PngWrites) = 17
       /\ \A j \in 1..17 :
            /\ PngWrites[j] = ExpectedFileNames[j]
            /\ files[ExpectedFileNames[j]].image # NoImage
  /\ ManifestWritten =>
       /\ Len(written) = 17 + 1
       /\ written[Len(written)] = ContentsJsonName
       /\ \A j \in 1..17 :
            /\ ExpectedFileNames[j] \in DOMAIN files
            /\ files[ExpectedFileNames[j]].image # NoImage
            /\ \E i \in WritesOf(ExpectedFileNames[j]) :
                 \A m \in WritesOf(ContentsJsonName) : i < m

C4_Witness ==
  /\ ManifestWritten
  /\ pc = "done"
  /\ exit_code = 0

\* C5: in a run that completes without error every catalog entry, in catalog
\* order, is written exactly once under its name
\* {stem}_{pixelSize}x{pixelSize}.png in output_dir/ios, the 17 names are 17
\* distinct files, and processed_count = total_count = 17.
C5_EveryEntryOneFile ==
  pc = "done" =>
     /\ processed_count = total_count
     /\ total_count = 17
     /\ Len(PngWrites) = 17
     /\ \A j \in 1..17 :
          /\ PngWrites[j] = ExpectedFileNames[j]
          /\ WritesOf(ExpectedFileNames[j]) = { j }
     /\ DOMAIN files = { ExpectedFileNames[j] : j \in 1..17 }
     /\ Cardinality(DOMAIN files) = 17
     /\ IosDir(output_dir) \in dirs

C5_Witness ==
  /\ pc = "done"
  /\ processed_count = 17
  /\ dirs0 = { }

\* C6: the "images" list of the manifest has one descriptor per catalog entry
\* in catalog order; descriptor i carries the idiom, the scale and the
\* declared size of entry i, and has the keys "role" and "subgroup" exactly
\* when the entry has a role, respectively a subgroup.
C6_ManifestMirrorsCatalog ==
  ManifestWritten =>
     /\ Len(contents_json.data.images) = Len(Catalog)
     /\ Len(contents_json.data.images) = 17
     /\ \A i \in 1..Len(Catalog) :
          LET d == contents_json.data.images[i]
              e == Catalog[i]
          IN /\ d["idiom"] = e.idiom
             /\ d["scale"] = e.scale
             /\ d["size"] = ExpectedSizeStrings[i]
             /\ ("role" \in DOMAIN d) <=> (e.role # None)
             /\ ("role" \in DOMAIN d) => d["role"] = e.role
             /\ ("subgroup" \in DOMAIN d) <=> (e.subgroup # None)
             /\ ("subgroup" \in DOMAIN d) => d["subgroup"] = e.subgroup

C6_Witness ==
  /\ ManifestWritten
  /\ Len(contents_json.data.images) = 17
  /\ contents_json.data.images[9]["idiom"] = "ipad"
  /\ contents_json.data.images[17]["idiom"] = "ios-marketing"

\* C7: for an input, square or not, whose smaller dimension is in
\* [512, 1024), the image returned by _prepare_image is exactly 1024x1024.
C7_SmallInputPreparedAt1024 ==
  (img # NoImage /\ MinDimension >= 512 /\ MinDimension < 1024) =>
     /\ img.width = 1024
     /\ img.height = 1024

C7_Witness ==
  /\ img # NoImage
  /\ input_file.width = 1023
  /\ input_file.height = 512

\* C8 (as claimed): for a non-square input that passes validation the
\* prepared image is square with side min(originalWidth, originalHeight).
C8_PreparedSideIsMinDimension ==
  (img # NoImage /\ input_file.width # input_file.height) =>
     /\ img.width = img.height
     /\ img.width = MinDimension

\* C8 (amended): for a non-square input that passes validation the prepared
\* image is square; its side is min(originalWidth, originalHeight) when that
\* is at least 1024, and 1024 when it is in [512, 1024).
C8_PreparedSideIsMinOrUpscaled ==
  (img # NoImage /\ input_file.width # input_file.height) =>
     /\ img.width = img.height
     /\ img.width = IF MinDimension >= 1024 THEN MinDimension ELSE 1024

C8_Witness ==
  /\ img # NoImage
  /\ input_file.width > input_file.height
  /\ input_file.height > 1024
  /\ img.width = input_file.height

\* round(x) of Python for x >= 0 held in tenths: half goes to the even side.
RoundTenths(t) ==
  LET q == t \div 10
      r == t % 10
  IN IF r < 5 THEN q
     ELSE IF r > 5 THEN q + 1
     ELSE IF q % 2 = 0 THEN q ELSE q + 1

\* The factor a scale string declares.
DeclaredScale(scale) ==
  CASE scale = << "1", "x" >> -> 1
    [] scale = << "2", "x" >> -> 2
    [] scale = << "3", "x" >> -> 3

\* round(logicalSize x scaleFactor) of catalog entry j.
RoundedPixelSize(j) == RoundTenths(Catalog[j].size * DeclaredScale(Catalog[j].scale))

\* C9: for every catalog entry, the 83.5pt one included, the pixel size in
\* the file name equals round(logicalSize x scaleFactor); for a valid square
\* input of at least 1024px every PNG written is that many pixels wide and
\* high.
C9_PixelSizeIsRounded ==
  \A j \in 1..Len(PngWrites) :
     LET r == RoundedPixelSize(j) IN
       /\ PngWrites[j] = Catalog[j].filename \o << "_" >> \o IntToStr(r)
                           \o << "x" >> \o IntToStr(r) \o PngSuffix
       /\ ( /\ input_file.width = input_file.height
            /\ input_file.width >= 1024 ) =>
            /\ files[PngWrites[j]].image.width = r
            /\ files[PngWrites[j]].image.height = r

C9_Witness ==
  /\ input_file.width = input_file.height
  /\ input_file.width >= 1024
  /\ Len(PngWrites) >= 9
  /\ files[PngWrites[9]].image.width = 167

\* Number of descriptors of the manifest whose "filename" is name.
ManifestCount(name) ==
  Cardinality({ i \in DOMAIN contents_json.data.images :
                  contents_json.data.images[i]["filename"] = name })

\* C10: after a run that completes without error the "filename" values of
\* Contents.json and the PNG names written are the same multiset, entry by
\* entry the same name, the 17 names are pairwise distinct, and every name
\* of the manifest is a file that exists.
C10_ManifestNamesMatchFiles ==
  pc = "done" =>
     /\ Len(contents_json.data.images) = Len(PngWrites)
     /\ \A i \in DOMAIN contents_json.data.images :
          LET name == contents_json.data.images[i]["filename"] IN
            /\ name = PngWrites[i]
            /\ ManifestCount(name) = Cardinality({ k \in DOMAIN PngWrites : PngWrites[k] = name })
            /\ name \in DOMAIN files
            /\ files[name].image # NoImage
     /\ \A i, k \in DOMAIN PngWrites : PngWrites[i] = PngWrites[k] => i = k
     /\ DOMAIN files = { contents_json.data.images[i]["filename"] :
                           i \in DOMAIN contents_json.data.images }
     /\ Cardinality(DOMAIN files) = 17

C10_Witness ==
  /\ pc = "done"
  /\ Len(contents_json.data.images) = 17
  /\ contents_json.data.images[9]["filename"] \in DOMAIN files

====
